---------------------------- MODULE Spec2Model ----------------------------
(***************************************************************************)
(* gmana-cli: the password generator (PasswordGenerator.generate with its  *)
(* charset builder and sampler) and the strength scorer                    *)
(* (PasswordGenerator.calculateStrength).                                  *)
(*                                                                         *)
(* A JavaScript string is modelled as the sequence of its UTF-16 code      *)
(* units, each written as a one-character TLA+ string.                     *)
(***************************************************************************)
EXTENDS Integers, Sequences, FiniteSets, TLC

VARIABLES
    pc,               \* position inside PasswordGenerator.generate
    options,          \* the options record handed to generate
    validatedOptions, \* result of PasswordOptionsSchema.parse
    charset,          \* the sampling pool (local `charset` / `customChars`)
    charsetBuilt,     \* TRUE once buildCharset has run in this call
    password,         \* the local array `password` of generateSecurePassword
    draws,            \* number of crypto.randomInt calls made so far
    lastIndex,        \* the index the random source returned last
    indices,          \* every index the random source returned, in order
    stride,           \* the random source's step between two indices
    error,            \* the exception generate threw, or "none"
    result,           \* the string generate returned
    candidate,        \* the string handed to calculateStrength
    pieces,           \* how many pieces of Vocabulary candidate is made of
    strength,         \* what calculateStrength returned for it
    historyFile,      \* ~/.gmana/history.json
    nextId,           \* how many history entries were created so far
    savedLog,         \* entries saved since the last clear, newest first
    hpc,              \* per process: position inside saveToHistory
    hloaded,          \* per process: the local `history` of saveToHistory
    configFile,       \* ~/.gmana/config.json
    cfgLoaded,        \* what the last loadConfig call returned
    cfgError,         \* what the last saveConfig call threw
    cmdInput,         \* what the last config command was given
    cmdOutcome,       \* how the last config command ended
    cmdBefore,        \* the config file when the last config command began
    masked,           \* what maskPassword was given and what it returned
    cliPc,            \* position of the gen command
    cliArgs,          \* the options commander handed to runCommandMode
    cliOptions,       \* passwordOptions built by runCommandMode
    cliActions,       \* the copy / save / showStrength record
    cliEvents,        \* what the gen command printed, in order
    cliError,         \* the error that reached the command's caller
    clipboard         \* what was written to the clipboard

genVars == <<pc, options, validatedOptions, charset, charsetBuilt, password,
             draws, lastIndex, indices, stride, error, result>>

scoreVars == <<candidate, pieces, strength>>

histVars == <<historyFile, nextId, savedLog, hpc, hloaded>>

cfgVars == <<configFile, cfgLoaded, cfgError>>

cmdVars == <<cmdInput, cmdOutcome, cmdBefore>>

cliVars == <<cliPc, cliArgs, cliOptions, cliActions, cliEvents, cliError, clipboard>>

vars == <<genVars, scoreVars, histVars, cfgVars, cmdVars, masked, cliVars>>

\* what the steps of one component leave alone
nonGenVars == <<scoreVars, histVars, cfgVars, cmdVars, masked, cliVars>>
nonScoreVars == <<genVars, histVars, cfgVars, cmdVars, masked, cliVars>>
nonHistVars == <<genVars, scoreVars, cfgVars, cmdVars, masked, cliVars>>
nonCfgVars == <<genVars, scoreVars, histVars, cmdVars, masked, cliVars>>
nonCmdVars == <<genVars, scoreVars, histVars, masked, cliVars>>
nonMaskVars == <<genVars, scoreVars, histVars, cfgVars, cmdVars, cliVars>>
nonCliVars == <<scoreVars, cfgVars, cmdVars, masked>>

---------------------------------------------------------------------------
(* Bounds of the model *)

\* lengths MIN_LENGTH .. MIN_LENGTH + LenSpan are tried next to the limits
LenSpan == 1
\* the random source returns seed, seed + s, seed + 2s, ... (mod n),
\* for every seed in [0, n) and every s in 0 .. MaxStride
MaxStride == 1
\* the strings scored are made of at most MaxChunks pieces of Vocabulary
MaxChunks == 4
\* at most MaxSaves history entries are created in a run of sequential calls
MaxSaves == 102
\* at most MaxConcurrentSaves saveToHistory calls are started by the two
\* concurrent processes together
MaxConcurrentSaves == 6
\* at most MaxLimitedSaves entries are saved under a configured limit
MaxLimitedSaves == 3

---------------------------------------------------------------------------
(* Character-class constants, part_000 lines 200-206 *)

LOWERCASE == <<"a","b","c","d","e","f","g","h","i","j","k","l","m",
               "n","o","p","q","r","s","t","u","v","w","x","y","z">>
UPPERCASE == <<"A","B","C","D","E","F","G","H","I","J","K","L","M",
               "N","O","P","Q","R","S","T","U","V","W","X","Y","Z">>
NUMBERS == <<"0","1","2","3","4","5","6","7","8","9">>
SYMBOLS == <<"!","@","#","$","%","^","&","*">>
EXTRA_SYMBOLS == <<"(",")","_","+","-","=","[","]","{","}","|",";",":",
                   ",",".","<",">","?">>
SIMILAR_CHARS_NoDigits == <<"i","l","L","o","O">>
SIMILAR_CHARS == <<"i","l","1","L","o","0","O">>
\* the grave accent (U+0060) cannot be written inside a TLA+ string
GRAVE == "U+0060"
AMBIGUOUS_CHARS == <<"{","}","[","]","(",")","/","\\","'","\"",GRAVE,"~",
                     ",",";",".","<",">">>

\* String.prototype.includes with a one-character argument
Includes(str, ch) == \E i \in 1..Len(str) : str[i] = ch

---------------------------------------------------------------------------
(* PasswordOptionsSchema, part_000 lines 184-195 *)

MIN_LENGTH == 4
MAX_LENGTH == 128
DEFAULT_LENGTH == 12

\* A `length` field: an integer, a finite non-integer (val is its floor),
\* NaN, or the field is absent (undefined).
IntLen(n) == [kind |-> "int", val |-> n]
FracLen(n) == [kind |-> "frac", val |-> n]
NaNLen == [kind |-> "nan", val |-> 0]
AbsentLen == [kind |-> "absent", val |-> 0]

\* customChars: z.string().optional()
NoCustom == [present |-> FALSE, chars |-> <<>>]
Custom(s) == [present |-> TRUE, chars |-> s]

Options ==
    [length : {AbsentLen, NaNLen} \cup {IntLen(n) : n \in Int} \cup {FracLen(n) : n \in Int},
     includeUppercase : BOOLEAN, includeLowercase : BOOLEAN,
     includeNumbers : BOOLEAN, includeSymbols : BOOLEAN,
     includeExtraSymbols : BOOLEAN,
     excludeSimilar : BOOLEAN, excludeAmbiguous : BOOLEAN,
     customChars : {NoCustom} \cup {Custom(s) : s \in Seq(STRING)}]

\* z.number().int().min(4).max(128): does a present value pass?
LengthValid(len) ==
    /\ len.kind = "int"
    /\ len.val >= MIN_LENGTH
    /\ len.val <= MAX_LENGTH

\* PasswordOptionsSchema.parse(options): the validated record (.default(12)
\* fills an absent length), or a ZodError
SchemaParseClamping(o) ==
    [success |-> o.length.kind # "nan",
     data |-> [o EXCEPT !.length =
                 IF o.length.kind = "absent" THEN DEFAULT_LENGTH
                 ELSE IF o.length.val < MIN_LENGTH THEN MIN_LENGTH
                 ELSE IF o.length.val > MAX_LENGTH THEN MAX_LENGTH
                 ELSE o.length.val]]
SchemaParse(o) ==
    IF o.length.kind = "absent"
    THEN [success |-> TRUE, data |-> [o EXCEPT !.length = DEFAULT_LENGTH]]
    ELSE [success |-> LengthValid(o.length),
          data |-> [o EXCEPT !.length = o.length.val]]

---------------------------------------------------------------------------
(* PasswordGenerator.buildCharset, part_000 lines 227-251 *)

\* charset.split("").filter((char) => !excluded.includes(char)).join("")
WithoutInverted(cs, excluded) == SelectSeq(cs, LAMBDA ch : Includes(excluded, ch))
Without(cs, excluded) == SelectSeq(cs, LAMBDA ch : ~Includes(excluded, ch))

BuildCharsetUpperFirst(o) ==
    LET c1 == IF o.includeUppercase THEN UPPERCASE ELSE <<>>
        c2 == IF o.includeLowercase THEN c1 \o LOWERCASE ELSE c1
        c3 == IF o.includeNumbers THEN c2 \o NUMBERS ELSE c2
        c4 == IF o.includeSymbols THEN c3 \o SYMBOLS ELSE c3
        c5 == IF o.includeExtraSymbols THEN c4 \o EXTRA_SYMBOLS ELSE c4
        c6 == IF o.excludeSimilar THEN Without(c5, SIMILAR_CHARS) ELSE c5
    IN  IF o.excludeAmbiguous THEN Without(c6, AMBIGUOUS_CHARS) ELSE c6
BuildCharset(o) ==
    LET c1 == IF o.includeLowercase THEN LOWERCASE ELSE <<>>
        c2 == IF o.includeUppercase THEN c1 \o UPPERCASE ELSE c1
        c3 == IF o.includeNumbers THEN c2 \o NUMBERS ELSE c2
        c4 == IF o.includeSymbols THEN c3 \o SYMBOLS ELSE c3
        c5 == IF o.includeExtraSymbols THEN c4 \o EXTRA_SYMBOLS ELSE c4
        c6 == IF o.excludeSimilar THEN Without(c5, SIMILAR_CHARS) ELSE c5
    IN  IF o.excludeAmbiguous THEN Without(c6, AMBIGUOUS_CHARS) ELSE c6

---------------------------------------------------------------------------
(* PasswordGenerator.generate and generateSecurePassword,                  *)
(* part_000 lines 208-225 and 253-273                                      *)

\* `if (validatedOptions.customChars)`: a present, non-empty string
UsesCustomCharsIfPresent(o) == o.customChars.present
UsesCustomChars(o) == o.customChars.present /\ Len(o.customChars.chars) > 0

\* `charset.length === 0`
CharsetIsEmptyNever(cs) == Len(cs) < 0
CharsetIsEmpty(cs) == Len(cs) = 0

\* loop condition `i < length` of generateSecurePassword
LoopContinuesInclusive(i, length) == i <= length
LoopContinues(i, length) == i < length

\* crypto.randomInt(0, charsetLength): an integer of [0, charsetLength)
RandomInt(min, max) == min .. (max - 1)

\* charset[randomIndex]: a code unit, or undefined past the end
CharAtNext(cs, index) == cs[((index + 1) % Len(cs)) + 1]
CharAt(cs, index) == IF index < Len(cs) THEN cs[index + 1] ELSE "undefined"

\* password.join(""): undefined elements contribute the empty string
Join(arr) == SelectSeq(arr, LAMBDA e : e # "undefined")

\* the option records handed to generate: every combination of the flags
\* with the rejected lengths and the shortest accepted ones, without a
\* custom string and with a non-empty one; every length, the default and
\* the longest included, with the digit pool and every custom string
ShortLengths ==
    {NaNLen, FracLen(MIN_LENGTH), IntLen(MIN_LENGTH - 1), IntLen(MAX_LENGTH + 1)}
    \cup {IntLen(n) : n \in MIN_LENGTH .. (MIN_LENGTH + LenSpan)}
LongLengths == {AbsentLen, IntLen(MAX_LENGTH)}
TestCustomChars ==
    {NoCustom, Custom(<<>>), Custom(<<"a","b">>), Custom(<<"l","{","0","l">>)}
TestOptions ==
    [length : ShortLengths,
     includeUppercase : BOOLEAN, includeLowercase : BOOLEAN,
     includeNumbers : BOOLEAN, includeSymbols : BOOLEAN,
     includeExtraSymbols : BOOLEAN,
     excludeSimilar : BOOLEAN, excludeAmbiguous : BOOLEAN,
     customChars : TestCustomChars \ {Custom(<<>>)}]
    \cup
    [length : ShortLengths \cup LongLengths,
     includeUppercase : {FALSE}, includeLowercase : {FALSE},
     includeNumbers : BOOLEAN, includeSymbols : {FALSE},
     includeExtraSymbols : {FALSE},
     excludeSimilar : BOOLEAN, excludeAmbiguous : BOOLEAN,
     customChars : TestCustomChars]

NoOptions ==
    [length |-> AbsentLen,
     includeUppercase |-> FALSE, includeLowercase |-> FALSE,
     includeNumbers |-> FALSE, includeSymbols |-> FALSE,
     includeExtraSymbols |-> FALSE,
     excludeSimilar |-> FALSE, excludeAmbiguous |-> FALSE,
     customChars |-> NoCustom]

GenInit ==
    /\ pc = "idle"
    /\ options = NoOptions
    /\ validatedOptions = [NoOptions EXCEPT !.length = 0]
    /\ charset = <<>>
    /\ charsetBuilt = FALSE
    /\ password = <<>>
    /\ draws = 0
    /\ lastIndex = 0
    /\ indices = <<>>
    /\ stride = 0
    /\ error = "none"
    /\ result = <<>>

\* generate is entered: line 209, PasswordOptionsSchema.parse(options)
Generate(o) ==
    /\ options' = o
    /\ LET parsed == SchemaParse(o)
       IN  IF parsed.success
           THEN /\ validatedOptions' = parsed.data
                /\ pc' = "parsed"
                /\ error' = error
           ELSE /\ validatedOptions' = validatedOptions
                /\ pc' = "threw"
                /\ error' = "ZodError"
    /\ UNCHANGED <<charset, charsetBuilt, password, draws, lastIndex, indices,
                   stride, result>>
    /\ UNCHANGED nonGenVars

\* lines 211-216 and 268-273: the custom string is the pool
GenerateFromCustomChars ==
    /\ pc = "parsed"
    /\ UsesCustomChars(validatedOptions)
    /\ charset' = validatedOptions.customChars.chars
    /\ pc' = "sampling"
    /\ UNCHANGED <<options, validatedOptions, charsetBuilt, password, draws,
                   lastIndex, indices, stride, error, result>>
    /\ UNCHANGED nonGenVars

\* lines 218-224: build the class-based pool, throw when it is empty
BuildCharsetOrThrow ==
    /\ pc = "parsed"
    /\ ~UsesCustomChars(validatedOptions)
    /\ charset' = BuildCharset(validatedOptions)
    /\ charsetBuilt' = TRUE
    /\ IF CharsetIsEmpty(charset')
       THEN pc' = "threw" /\ error' = "No character types selected"
       ELSE pc' = "sampling" /\ error' = error
    /\ UNCHANGED <<options, validatedOptions, password, draws, lastIndex,
                   indices, stride, result>>
    /\ UNCHANGED nonGenVars

\* lines 260-263: one iteration of the sampling loop
Draw ==
    /\ pc = "sampling"
    /\ LoopContinues(Len(password), validatedOptions.length)
    /\ \E randomIndex \in RandomInt(0, Len(charset)), s \in 0 .. MaxStride :
        /\ draws > 0 =>
             /\ s = stride
             /\ randomIndex = (lastIndex + stride) % Len(charset)
        /\ password' = Append(password, CharAt(charset, randomIndex))
        /\ lastIndex' = randomIndex
        /\ indices' = Append(indices, randomIndex)
        /\ stride' = s
    /\ draws' = draws + 1
    /\ UNCHANGED <<pc, options, validatedOptions, charset, charsetBuilt, error, result>>
    /\ UNCHANGED nonGenVars

\* line 265: the loop is over, the array is joined and returned
Return ==
    /\ pc = "sampling"
    /\ ~LoopContinues(Len(password), validatedOptions.length)
    /\ result' = Join(password)
    /\ pc' = "returned"
    /\ UNCHANGED <<options, validatedOptions, charset, charsetBuilt, password,
                   draws, lastIndex, indices, stride, error>>
    /\ UNCHANGED nonGenVars

\* a caller invokes generate with one of the option records
GenerateCall ==
    /\ pc = "idle"
    /\ \E o \in TestOptions : Generate(o)

---------------------------------------------------------------------------
(* PasswordGenerator.calculateStrength, part_000 lines 275-327 *)

Max(a, b) == IF a >= b THEN a ELSE b

\* /[a-z]/, /[A-Z]/, /\d/ and the character class of line 299
RegexLower == {"a","b","c","d","e","f","g","h","i","j","k","l","m",
               "n","o","p","q","r","s","t","u","v","w","x","y","z"}
RegexUpper == {"A","B","C","D","E","F","G","H","I","J","K","L","M",
               "N","O","P","Q","R","S","T","U","V","W","X","Y","Z"}
RegexDigit == {"0","1","2","3","4","5","6","7","8","9"}
RegexSpecial == {"!","@","#","$","%","^","&","*","(",")","_","+","-","=",
                 "[","]","{","}","|",";",":",",",".","<",">","?"}

\* regex.test(p) for a one-character class
TestClass(class, p) == \E i \in 1..Len(p) : p[i] \in class

\* `.` matches every code unit but the line terminators
LineTerminators == {"\n", "\r", "U+2028", "U+2029"}

\* /(.)\1{2,}/.test(p)
TestRepeat(p) ==
    \E i \in 1..(Len(p) - 2) :
        /\ p[i] \notin LineTerminators
        /\ p[i + 1] = p[i]
        /\ p[i + 2] = p[i]

\* the case folding of the `i` flag on ASCII letters
Canonicalize(ch) ==
    IF \E i \in 1..Len(LOWERCASE) : LOWERCASE[i] = ch
    THEN UPPERCASE[CHOOSE i \in 1..Len(LOWERCASE) : LOWERCASE[i] = ch]
    ELSE ch

\* does p contain the literal `word`, ignoring case?
ContainsIgnoreCase(p, word) ==
    \E i \in 0..(Len(p) - Len(word)) :
        \A j \in 1..Len(word) : Canonicalize(p[i + j]) = Canonicalize(word[j])

\* /123|abc|qwe/i.test(p)
TestSequence(p) ==
    \E word \in {<<"1","2","3">>, <<"a","b","c">>, <<"q","w","e">>} :
        ContainsIgnoreCase(p, word)

LENGTH_HINT == "Password should be at least 8 characters long"

\* lines 284-287: the length term and its hint
LengthStepHintBelow8(acc, p) ==
    IF Len(p) >= 12 THEN [acc EXCEPT !.score = @ + 25]
    ELSE IF Len(p) >= 8 THEN [acc EXCEPT !.score = @ + 15]
    ELSE IF Len(p) >= 6
         THEN [acc EXCEPT !.score = @ + 10,
                          !.feedback = Append(@, LENGTH_HINT)]
    ELSE [acc EXCEPT !.feedback = Append(@, LENGTH_HINT)]
LengthStep(acc, p) ==
    IF Len(p) >= 12 THEN [acc EXCEPT !.score = @ + 25]
    ELSE IF Len(p) >= 8 THEN [acc EXCEPT !.score = @ + 15]
    ELSE IF Len(p) >= 6 THEN [acc EXCEPT !.score = @ + 10]
    ELSE [acc EXCEPT !.feedback = Append(@, LENGTH_HINT)]

\* lines 290-300: `if (regex.test(password)) score += n; else feedback.push(hint)`
VarietyStep(acc, found, points, hint) ==
    IF found THEN [acc EXCEPT !.score = @ + points]
    ELSE [acc EXCEPT !.feedback = Append(@, hint)]

\* lines 303-311: `if (regex.test(password)) { score -= n; feedback.push(hint) }`
PenaltyStep(acc, found, points, hint) ==
    IF found THEN [acc EXCEPT !.score = @ - points,
                              !.feedback = Append(@, hint)]
    ELSE acc

\* lines 313-324: the level of a (raw) score
LevelOfExclusive(score) ==
    IF score > 90 THEN "Very Strong"
    ELSE IF score > 75 THEN "Strong"
    ELSE IF score > 60 THEN "Good"
    ELSE IF score > 40 THEN "Fair"
    ELSE IF score > 20 THEN "Weak"
    ELSE "Very Weak"
LevelOf(score) ==
    IF score >= 90 THEN "Very Strong"
    ELSE IF score >= 75 THEN "Strong"
    ELSE IF score >= 60 THEN "Good"
    ELSE IF score >= 40 THEN "Fair"
    ELSE IF score >= 20 THEN "Weak"
    ELSE "Very Weak"

\* the running `score` and `feedback` after line 311
RawStrength(p) ==
    LET a0 == [score |-> 0, feedback |-> <<>>]
        a1 == LengthStep(a0, p)
        a2 == VarietyStep(a1, TestClass(RegexLower, p), 15, "Add lowercase letters")
        a3 == VarietyStep(a2, TestClass(RegexUpper, p), 15, "Add uppercase letters")
        a4 == VarietyStep(a3, TestClass(RegexDigit, p), 15, "Add numbers")
        a5 == VarietyStep(a4, TestClass(RegexSpecial, p), 20, "Add special characters")
        a6 == PenaltyStep(a5, TestRepeat(p), 10, "Avoid repeating characters")
    IN  PenaltyStep(a6, TestSequence(p), 15, "Avoid common sequences")

\* line 326: `{ score: Math.max(0, score), level, feedback }`
CalculateStrength(p) ==
    LET raw == RawStrength(p)
    IN  [score |-> Max(0, raw.score),
         level |-> LevelOf(raw.score),
         feedback |-> raw.feedback]

\* the pieces the scored strings are made of
Vocabulary ==
    {<<"~"," ","~"," ">>, <<"a","B","1","!">>, <<"a">>, <<"b","c">>,
     <<"Q","w">>, <<"E">>, <<"1","2">>, <<"3">>, <<"]">>, <<"\n">>}

NotScored == [score |-> 0, level |-> "none", feedback |-> <<>>]

ScoreInit ==
    /\ candidate = <<>>
    /\ pieces = 0
    /\ strength = NotScored

\* the caller extends the string it is about to score
Extend(chunk) ==
    /\ candidate' = candidate \o chunk
    /\ pieces' = pieces + 1
    /\ UNCHANGED strength
    /\ UNCHANGED nonScoreVars

ExtendCandidate ==
    /\ strength = NotScored
    /\ pieces < MaxChunks
    /\ \E chunk \in Vocabulary : Extend(chunk)

\* calculateStrength(candidate) is called and returns
Score ==
    /\ strength = NotScored
    /\ strength' = CalculateStrength(candidate)
    /\ UNCHANGED <<candidate, pieces>>
    /\ UNCHANGED nonScoreVars

---------------------------------------------------------------------------
(* The history log: saveToHistory, loadHistory, clearHistory,              *)
(* part_000 lines 336-403                                                  *)

Min(a, b) == IF a <= b THEN a ELSE b

\* `history.slice(0, 100)`: the number of entries kept
HISTORY_KEEP == 100

\* the history file: absent, holding a JSON array that HistorySchema
\* accepts, or holding anything else
AbsentFile == [state |-> "absent", entries |-> <<>>]
InvalidFile == [state |-> "invalid", entries |-> <<>>]
ValidFile(entries) == [state |-> "valid", entries |-> entries]

\* the password the history calls are given
SamplePassword == <<"a", "B", "1", "!", "x", "y">>

\* lines 364-376: the new entry; crypto.randomUUID() gives a fresh id
HistoryEntry(id, pw) == [id |-> id, password |-> pw]

\* loadHistory, lines 386-397: the parsed array, or [] when the file is
\* missing or does not parse
LoadHistory(file) == IF file.state = "valid" THEN file.entries ELSE <<>>

\* history.unshift(entry)
UnshiftAtEnd(history, entry) == Append(history, entry)
Unshift(history, entry) == <<entry>> \o history

\* history.slice(0, 100)
LimitedHistoryKeepsOldest(history) ==
    SubSeq(history, Max(1, Len(history) - HISTORY_KEEP + 1), Len(history))
LimitedHistory(history) == SubSeq(history, 1, Min(Len(history), HISTORY_KEEP))

\* fs.writeJson(HISTORY_FILE, limitedHistory)
WriteJson(entries) == ValidFile(entries)

\* fs.pathExists(HISTORY_FILE)
PathExists(file) == file.state # "absent"

Procs == {1, 2}

HistIdle ==
    /\ historyFile = AbsentFile
    /\ nextId = 0
    /\ savedLog = <<>>
    /\ hpc = [p \in Procs |-> "idle"]
    /\ hloaded = [p \in Procs |-> <<>>]

\* the history file before the first call: missing, unreadable, or an
\* empty log
HistInit ==
    /\ historyFile \in {AbsentFile, InvalidFile, ValidFile(<<>>)}
    /\ nextId = 0
    /\ savedLog = <<>>
    /\ hpc = [p \in Procs |-> "idle"]
    /\ hloaded = [p \in Procs |-> <<>>]

\* saveToHistory(password, options), lines 357-384, run to completion
SaveToHistory(pw) ==
    LET history == LoadHistory(historyFile)
        entry == HistoryEntry(nextId + 1, pw)
    IN  /\ historyFile' = WriteJson(LimitedHistory(Unshift(history, entry)))
        /\ nextId' = nextId + 1
        /\ savedLog' = <<entry>> \o savedLog

SaveToHistoryCall ==
    /\ nextId < MaxSaves
    /\ SaveToHistory(SamplePassword)
    /\ UNCHANGED <<hpc, hloaded>>
    /\ UNCHANGED nonHistVars

\* clearHistory(), lines 399-403
ClearHistoryCall ==
    /\ historyFile' = IF PathExists(historyFile) THEN AbsentFile ELSE historyFile
    /\ savedLog' = <<>>
    /\ UNCHANGED <<nextId, hpc, hloaded>>
    /\ UNCHANGED nonHistVars

\* saveToHistory run by process p, up to the end of `await loadHistory()`
\* (lines 361-363): the file is read into the local `history`
SaveLoad(p) ==
    /\ hpc[p] = "idle"
    /\ nextId + Cardinality({q \in Procs : hpc[q] = "loaded"}) < MaxConcurrentSaves
    /\ hloaded' = [hloaded EXCEPT ![p] = LoadHistory(historyFile)]
    /\ hpc' = [hpc EXCEPT ![p] = "loaded"]
    /\ UNCHANGED <<historyFile, nextId, savedLog>>
    /\ UNCHANGED nonHistVars

\* the rest of saveToHistory in process p (lines 364-383): the entry is put
\* in front of the local `history` and the file is overwritten
SaveWrite(p) ==
    /\ hpc[p] = "loaded"
    /\ LET entry == HistoryEntry(nextId + 1, SamplePassword)
       IN  /\ historyFile' = WriteJson(LimitedHistory(Unshift(hloaded[p], entry)))
           /\ savedLog' = <<entry>> \o savedLog
    /\ nextId' = nextId + 1
    /\ hpc' = [hpc EXCEPT ![p] = "idle"]
    /\ hloaded' = [hloaded EXCEPT ![p] = <<>>]
    /\ UNCHANGED nonHistVars

SaveLoadStep == \E p \in Procs : SaveLoad(p)
SaveWriteStep == \E p \in Procs : SaveWrite(p)

---------------------------------------------------------------------------
(* The configuration file: ConfigSchema, loadConfig, saveConfig,           *)
(* src/lib/config.ts                                                       *)

\* JSON values of a property: not there, a number (an integer n, or a
\* fraction between n and n + 1), a boolean, a string
Missing == [t |-> "missing", n |-> 0, b |-> FALSE]
Num(n) == [t |-> "num", n |-> n, b |-> FALSE]
FracNum(n) == [t |-> "frac", n |-> n, b |-> FALSE]
Bool(b) == [t |-> "bool", n |-> 0, b |-> b]
Str == [t |-> "str", n |-> 0, b |-> FALSE]

\* ConfigSchema, lines 6-15
IntField(min, max, default) ==
    [type |-> "int", min |-> min, max |-> max, default |-> Num(default)]
BoolField(default) ==
    [type |-> "bool", min |-> 0, max |-> 0, default |-> Bool(default)]
ConfigSchema ==
    [defaultLength |-> IntField(4, 128, 12),
     defaultIncludeUppercase |-> BoolField(TRUE),
     defaultIncludeLowercase |-> BoolField(TRUE),
     defaultIncludeNumbers |-> BoolField(TRUE),
     defaultIncludeSymbols |-> BoolField(TRUE),
     autoCopy |-> BoolField(TRUE),
     saveHistory |-> BoolField(FALSE),
     historyLimit |-> IntField(0, 1000, 100)]
ConfigKeys == DOMAIN ConfigSchema

\* one property against its schema: z.number().int().min().max() or
\* z.boolean()
FieldAcceptsAnyNumber(f, v) ==
    IF f.type = "int" THEN v.t \in {"num", "frac"} ELSE v.t = "bool"
FieldAccepts(f, v) ==
    IF f.type = "int"
    THEN v.t = "num" /\ v.n >= f.min /\ v.n <= f.max
    ELSE v.t = "bool"

\* ConfigSchema.parse(raw): .default() fills what is undefined, anything
\* else is validated; parse throws when a property fails
ConfigParse(raw) ==
    [success |-> \A k \in ConfigKeys :
                    raw[k] = Missing \/ FieldAccepts(ConfigSchema[k], raw[k]),
     data |-> [k \in ConfigKeys |->
                 IF raw[k] = Missing THEN ConfigSchema[k].default ELSE raw[k]]]

\* {}
EmptyObject == [k \in ConfigKeys |-> Missing]

\* the config file: absent, not a JSON object, or a JSON object
NoConfigFile == [state |-> "absent", content |-> EmptyObject, writer |-> "none"]
BrokenConfigFile == [state |-> "invalid", content |-> EmptyObject, writer |-> "user"]
ConfigFileOf(content, writer) ==
    [state |-> "json", content |-> content, writer |-> writer]

\* loadConfig, lines 22-33
LoadConfig(file) ==
    IF file.state = "json" /\ ConfigParse(file.content).success
    THEN ConfigParse(file.content).data
    ELSE ConfigParse(EmptyObject).data

\* { ...currentConfig, ...config }: the keys of config win
Merge(current, config) ==
    [k \in ConfigKeys |-> IF config[k] = Missing THEN current[k] ELSE config[k]]

\* saveConfig(config), lines 35-41
SaveConfig(config) ==
    LET currentConfig == LoadConfig(configFile)
        newConfig == Merge(currentConfig, config)
        validated == ConfigParse(newConfig)
    IN  IF validated.success
        THEN /\ configFile' = ConfigFileOf(validated.data, "saveConfig")
             /\ cfgError' = "none"
        ELSE /\ cfgError' = "ZodError"
             /\ UNCHANGED configFile

\* values tried for a property
TestValues(k) ==
    LET f == ConfigSchema[k]
    IN  IF f.type = "int"
        THEN {Num(f.min - 1), Num(f.min), Num(f.max), Num(f.max + 1),
              FracNum(f.min), Str, Bool(TRUE)}
        ELSE {Bool(TRUE), Bool(FALSE), Str, Num(1)}

\* objects with one property
OneProperty(k, v) == [EmptyObject EXCEPT ![k] = v]
EditedKeys == {"defaultLength", "defaultIncludeUppercase", "saveHistory", "historyLimit"}
SavedKeys == {"defaultLength", "saveHistory", "historyLimit"}
OneOf(keys) == UNION {{OneProperty(k, v) : v \in TestValues(k)} : k \in keys}
TestFileContents == {EmptyObject} \cup OneOf(EditedKeys)
TestUpdates == {EmptyObject} \cup OneOf(SavedKeys)

NotLoaded == [done |-> FALSE, config |-> EmptyObject]

CfgIdle ==
    /\ configFile = NoConfigFile
    /\ cfgLoaded = NotLoaded
    /\ cfgError = "none"

\* the user edits, breaks or deletes ~/.gmana/config.json
EditConfigFile ==
    /\ configFile' \in {NoConfigFile, BrokenConfigFile}
                         \cup {ConfigFileOf(c, "user") : c \in TestFileContents}
    /\ UNCHANGED <<cfgLoaded, cfgError>>
    /\ UNCHANGED nonCfgVars

LoadConfigCall ==
    /\ cfgLoaded' = [done |-> TRUE, config |-> LoadConfig(configFile)]
    /\ UNCHANGED <<configFile, cfgError>>
    /\ UNCHANGED nonCfgVars

SaveConfigCall ==
    /\ \E config \in TestUpdates : SaveConfig(config)
    /\ UNCHANGED cfgLoaded
    /\ UNCHANGED nonCfgVars

---------------------------------------------------------------------------
(* JavaScript string functions used by the commands *)

WhiteSpace == {" ", "\t", "\n", "\r"}
HexDigits == <<"0","1","2","3","4","5","6","7","8","9","a","b","c","d","e","f">>

\* String.prototype.toLowerCase
ToLowerCaseChar(ch) ==
    IF \E i \in 1..Len(UPPERCASE) : UPPERCASE[i] = ch
    THEN LOWERCASE[CHOOSE i \in 1..Len(UPPERCASE) : UPPERCASE[i] = ch]
    ELSE ch
ToLowerCase(str) == [i \in 1..Len(str) |-> ToLowerCaseChar(str[i])]

\* the value of a digit in a radix, -1 when it is none
DigitValue(ch, radix) ==
    LET c == ToLowerCaseChar(ch)
    IN  IF \E i \in 1..radix : HexDigits[i] = c
        THEN (CHOOSE i \in 1..radix : HexDigits[i] = c) - 1
        ELSE -1

RECURSIVE SkipWhiteSpace(_)
SkipWhiteSpace(str) ==
    IF str # <<>> /\ Head(str) \in WhiteSpace
    THEN SkipWhiteSpace(Tail(str))
    ELSE str

\* the longest prefix of digits, as a number
RECURSIVE ParseDigits(_, _, _, _)
ParseDigits(str, radix, acc, seen) ==
    IF str # <<>> /\ DigitValue(Head(str), radix) >= 0
    THEN ParseDigits(Tail(str), radix, acc * radix + DigitValue(Head(str), radix), TRUE)
    ELSE [nan |-> ~seen, n |-> acc]

NaN == [nan |-> TRUE, n |-> 0]
Number(n) == [nan |-> FALSE, n |-> n]

\* parseInt(str) without a radix: leading white space, a sign, 0x for
\* base 16, then digits; NaN when there is no digit
ParseInt(str) ==
    LET t == SkipWhiteSpace(str)
        negative == t # <<>> /\ Head(t) = "-"
        u == IF t # <<>> /\ Head(t) \in {"+", "-"} THEN Tail(t) ELSE t
        hex == Len(u) >= 2 /\ u[1] = "0" /\ u[2] \in {"x", "X"}
        r == IF hex THEN ParseDigits(SubSeq(u, 3, Len(u)), 16, 0, FALSE)
                    ELSE ParseDigits(u, 10, 0, FALSE)
    IN  IF r.nan THEN NaN
        ELSE Number(IF negative THEN 0 - r.n ELSE r.n)

\* Number.prototype.toString of a non-negative integer
RECURSIVE NumberToString(_)
NumberToString(n) ==
    IF n < 10 THEN <<NUMBERS[n + 1]>>
    ELSE Append(NumberToString(n \div 10), NUMBERS[(n % 10) + 1])

\* str.split(sep)
RECURSIVE Split(_, _)
Split(str, sep) ==
    IF \E i \in 1..Len(str) : str[i] = sep
    THEN LET i == CHOOSE j \in 1..Len(str) :
                    str[j] = sep /\ \A k \in 1..(j - 1) : str[k] # sep
         IN  <<SubSeq(str, 1, i - 1)>> \o Split(SubSeq(str, i + 1, Len(str)), sep)
    ELSE <<str>>

---------------------------------------------------------------------------
(* The config command: setConfigValue and configureHistory,                *)
(* src/commands/config.ts                                                  *)

Text_defaultlength == <<"d","e","f","a","u","l","t","l","e","n","g","t","h">>
Text_length == <<"l","e","n","g","t","h">>
Text_autocopy == <<"a","u","t","o","c","o","p","y">>
Text_savehistory == <<"s","a","v","e","h","i","s","t","o","r","y">>
Text_historylimit == <<"h","i","s","t","o","r","y","l","i","m","i","t">>
Text_true == <<"t","r","u","e">>

\* the updates object of setConfigValue
Updates(k, v) == [EmptyObject EXCEPT ![k] = v]

\* how a config command ends: it saved, it printed an error and returned,
\* or it threw
Saved(config) ==
    /\ SaveConfig(config)
    /\ cmdOutcome' = IF ConfigParse(Merge(LoadConfig(configFile), config)).success
                     THEN "saved" ELSE "threw"
Rejected ==
    /\ cmdOutcome' = "rejected"
    /\ UNCHANGED <<configFile, cfgError>>
Threw ==
    /\ cmdOutcome' = "threw"
    /\ UNCHANGED <<configFile, cfgError>>

\* the range tests of lines 97 and 114, and of the prompt at line 231
Outside(num, min, max) == num.nan \/ num.n < min \/ num.n > max

\* setConfigValue(keyValue), lines 82-128
SetConfigValue(keyValue) ==
    LET parts == Split(keyValue, "=")
        key == parts[1]
        hasValue == Len(parts) >= 2
        value == IF hasValue THEN parts[2] ELSE <<>>
        name == ToLowerCase(key)
    IN  IF key = <<>> \/ ~hasValue THEN Rejected
        ELSE IF name \in {Text_defaultlength, Text_length}
        THEN IF Outside(ParseInt(value), 4, 128) THEN Rejected
             ELSE Saved(Updates("defaultLength", Num(ParseInt(value).n)))
        ELSE IF name = Text_autocopy
        THEN Saved(Updates("autoCopy", Bool(ToLowerCase(value) = Text_true)))
        ELSE IF name = Text_savehistory
        THEN Saved(Updates("saveHistory", Bool(ToLowerCase(value) = Text_true)))
        ELSE IF name = Text_historylimit
        THEN IF Outside(ParseInt(value), 0, 1000) THEN Rejected
             ELSE Saved(Updates("historyLimit", Num(ParseInt(value).n)))
        ELSE Rejected

\* the validate callback of the limit prompt, lines 229-234: TRUE when it
\* returns no message
ValidateLimit(value, config) ==
    LET num == ParseInt(IF value = <<>> THEN NumberToString(config.historyLimit.n)
                                        ELSE value)
    IN  ~Outside(num, 0, 1000)

\* parseInt(limitText) || config.historyLimit, line 236
LimitOrCurrent(limitText, config) ==
    LET parsed == ParseInt(limitText)
    IN  IF parsed.nan \/ parsed.n = 0 THEN config.historyLimit.n ELSE parsed.n

\* interactiveConfig with the "history" choice, lines 130-151, and
\* configureHistory(config), lines 217-243: the user answers the confirm
\* with saveHistory and, when asked, types limitText; the prompt returns
\* only a text its validate callback accepts, so after a refused text the
\* user cancels, and parseInt of the cancel symbol throws
ConfigureHistory(saveHistory, limitText) ==
    LET config == LoadConfig(configFile)
    IN  IF ~saveHistory
        THEN Saved([EmptyObject EXCEPT !.saveHistory = Bool(FALSE),
                                       !.historyLimit = config.historyLimit])
        ELSE IF ~ValidateLimit(limitText, config) THEN Threw
        ELSE Saved([EmptyObject EXCEPT
                      !.saveHistory = Bool(TRUE),
                      !.historyLimit = Num(LimitOrCurrent(limitText, config))])

\* texts typed for a limit
TestLimitTexts ==
    {<<>>, <<"0">>, <<"1">>, <<"7">>, <<"1","0","0","0">>, <<"1","0","0","1">>,
     <<"-","1">>, <<"a","b","c">>, <<"1","2","a","b","c">>, <<" ","5">>,
     <<"0","x","1","0">>, <<"5",".","7">>, <<"0","0">>}

\* arguments of --set
TestKeyValues ==
    {Text_historylimit \o <<"=">> \o v : v \in TestLimitTexts}
    \cup {<<"h","i","s","t","o","r","y","L","i","m","i","t","=","0">>,
          Text_historylimit,
          Text_historylimit \o <<"=","7","=","8">>,
          <<"=","5">>,
          <<"l","i","m","i","t","=","5">>,
          Text_savehistory \o <<"=">> \o Text_true,
          Text_savehistory \o <<"=","n","o">>,
          Text_autocopy \o <<"=","T","R","U","E">>,
          Text_length \o <<"=","4">>,
          Text_defaultlength \o <<"=","3">>,
          Text_defaultlength \o <<"=","1","2","8">>}

NoCommand == [path |-> "none", asked |-> FALSE, text |-> <<>>]

CmdIdle ==
    /\ cmdInput = NoCommand
    /\ cmdOutcome = "none"
    /\ cmdBefore = NoConfigFile

\* gmana config --set <keyValue>
SetConfigValueCall ==
    /\ \E keyValue \in TestKeyValues :
         /\ SetConfigValue(keyValue)
         /\ cmdInput' = [path |-> "set", asked |-> TRUE, text |-> keyValue]
    /\ cmdBefore' = configFile
    /\ UNCHANGED cfgLoaded
    /\ UNCHANGED nonCmdVars

\* gmana config, "History Settings"
ConfigureHistoryCall ==
    /\ \E saveHistory \in BOOLEAN, limitText \in TestLimitTexts :
         /\ saveHistory \/ limitText = <<>>
         /\ ConfigureHistory(saveHistory, limitText)
         /\ cmdInput' = [path |-> "interactive", asked |-> saveHistory,
                         text |-> limitText]
    /\ cmdBefore' = configFile
    /\ UNCHANGED cfgLoaded
    /\ UNCHANGED nonCmdVars

---------------------------------------------------------------------------
(* The history log under a configured historyLimit *)

\* the config command run while the history log is empty, so that every
\* entry of the log is saved under the limit in force
SetConfigValueOnEmptyLog ==
    /\ LoadHistory(historyFile) = <<>>
    /\ SetConfigValueCall

ConfigureHistoryOnEmptyLog ==
    /\ LoadHistory(historyFile) = <<>>
    /\ ConfigureHistoryCall

SaveUnderLimit ==
    /\ nextId < MaxLimitedSaves
    /\ SaveToHistoryCall

---------------------------------------------------------------------------
(* maskPassword, src/commands/history.ts lines 303-313 *)

\* the bullet (U+2022)
BULLET == "U+2022"

\* str.substring(from, to) with 0 <= from <= to <= length, "x".repeat(n)
Substring(str, from, to) == SubSeq(str, from + 1, to)
Repeat(ch, n) == [i \in 1..n |-> ch]

\* password.length <= 4
IsShortBelowFour(pw) == Len(pw) < 4
IsShort(pw) == Len(pw) <= 4

MaskPassword(pw) ==
    IF IsShort(pw)
    THEN <<BULLET, BULLET, BULLET, BULLET>>
    ELSE LET start == Substring(pw, 0, 2)
             end == Substring(pw, Len(pw) - 2, Len(pw))
             middle == Repeat(BULLET, Len(pw) - 4)
         IN  start \o middle \o end

NotMasked == [done |-> FALSE, password |-> <<>>, mask |-> <<>>]

MaskIdle == masked = NotMasked

\* a stored password is put together
ExtendStored ==
    /\ ~masked.done
    /\ ExtendCandidate
    /\ UNCHANGED masked

\* the history command shows it
MaskPasswordCall ==
    /\ ~masked.done
    /\ masked' = [done |-> TRUE, password |-> candidate,
                  mask |-> MaskPassword(candidate)]
    /\ UNCHANGED nonMaskVars

---------------------------------------------------------------------------
(* The gen command: runCommandMode and generateAndDisplay,                 *)
(* part_000 lines 12-43 and 114-179                                        *)

\* an optional boolean of CommandOptions, and `opt ?? fallback`
Undefined == [defined |-> FALSE, val |-> FALSE]
Flag(b) == [defined |-> TRUE, val |-> b]
Coalesce(opt, fallback) == IF opt.defined THEN opt.val ELSE fallback

\* the default of --length, line 16
LENGTH_OPTION_DEFAULT == <<"1", "2">>

\* a || b on numbers: NaN and 0 are falsy
OrElse(a, b) == IF a.nan \/ a.n = 0 THEN b ELSE a

\* line 118: parseInt(options.length || "") || config.defaultLength || 12
LengthOption(cmdOptions, config) ==
    OrElse(OrElse(ParseInt(cmdOptions.length), Number(config.defaultLength.n)),
           Number(DEFAULT_LENGTH))

\* lines 117-126: passwordOptions
PasswordOptionsOf(cmdOptions, config) ==
    [length |-> LET len == LengthOption(cmdOptions, config)
                IN  IF len.nan THEN NaNLen ELSE IntLen(len.n),
     includeUppercase |-> cmdOptions.uppercase # FALSE,
     includeLowercase |-> cmdOptions.lowercase # FALSE,
     includeNumbers |-> cmdOptions.numbers # FALSE,
     includeSymbols |-> cmdOptions.symbols # FALSE,
     includeExtraSymbols |-> Coalesce(cmdOptions.extraSymbols, FALSE),
     excludeSimilar |-> Coalesce(cmdOptions.excludeSimilar, FALSE),
     excludeAmbiguous |-> Coalesce(cmdOptions.excludeAmbiguous, FALSE),
     customChars |-> NoCustom]

\* lines 128-132: the actions record
ActionsOf(cmdOptions) ==
    [copy |-> Coalesce(cmdOptions.copy, FALSE),
     save |-> Coalesce(cmdOptions.save, FALSE),
     showStrength |-> Coalesce(cmdOptions.showStrength, FALSE)]

\* `catch { consola.warn(...) }`: what leaves the try statement
Rethrown(err) == err
Swallowed(err) == "none"

\* texts given to --length
TestLengthTexts ==
    {LENGTH_OPTION_DEFAULT, <<"4">>, <<"5">>, <<"a","b","c">>, <<>>, <<"0">>,
     <<"3">>, <<"2","0","0">>, <<"1","2","9">>, <<"4",".","5">>,
     <<"1","2","a","b","c">>, <<"-","5">>}

\* the options commander hands over: digits are the only class that is
\* ever left switched on
TestCommandOptions ==
    [length : TestLengthTexts,
     uppercase : {FALSE}, lowercase : {FALSE}, numbers : BOOLEAN,
     symbols : {FALSE},
     extraSymbols : {Undefined}, excludeSimilar : {Undefined},
     excludeAmbiguous : {Undefined},
     copy : {Flag(TRUE), Undefined},
     save : {Flag(TRUE), Flag(FALSE)},
     showStrength : {Flag(TRUE), Undefined}]

NoArgs ==
    [length |-> <<>>, uppercase |-> FALSE, lowercase |-> FALSE,
     numbers |-> FALSE, symbols |-> FALSE, extraSymbols |-> Undefined,
     excludeSimilar |-> Undefined, excludeAmbiguous |-> Undefined,
     copy |-> Undefined, save |-> Undefined, showStrength |-> Undefined]

CliIdle ==
    /\ cliPc = "idle"
    /\ cliArgs = NoArgs
    /\ cliOptions = NoOptions
    /\ cliActions = [copy |-> FALSE, save |-> FALSE, showStrength |-> FALSE]
    /\ cliEvents = <<>>
    /\ cliError = "none"
    /\ clipboard = <<>>

\* the config file a gen run finds: none, or one written by
\* `gmana config --set length=8`
ConfigWithLength8 ==
    ConfigFileOf([ConfigParse(EmptyObject).data EXCEPT !.defaultLength = Num(8)],
                 "saveConfig")

\* runCommandMode(options), lines 114-126, up to the call of
\* generateAndDisplay and its spinner
RunCommandMode ==
    /\ cliPc = "idle"
    /\ \E cmdOptions \in TestCommandOptions :
         /\ cliArgs' = cmdOptions
         /\ cliOptions' = PasswordOptionsOf(cmdOptions, LoadConfig(configFile))
         /\ cliActions' = ActionsOf(cmdOptions)
    /\ cliPc' = "generating"
    /\ UNCHANGED <<cliEvents, cliError, clipboard>>
    /\ UNCHANGED <<genVars, histVars>>
    /\ UNCHANGED nonCliVars

\* line 141: PasswordGenerator.generate(options) is entered
EnterGenerate ==
    /\ cliPc = "generating"
    /\ pc = "idle"
    /\ Generate(cliOptions)

\* generate threw: the action's catch, lines 35-42, prints and exits
GenerationFailed ==
    /\ cliPc = "generating"
    /\ pc = "threw"
    /\ cliEvents' = Append(cliEvents, "Generation failed")
    /\ cliError' = error
    /\ cliPc' = "exited"
    /\ UNCHANGED <<cliArgs, cliOptions, cliActions, clipboard>>
    /\ UNCHANGED <<genVars, histVars>>
    /\ UNCHANGED nonCliVars

\* lines 142-158: the password is printed, then its strength
Display ==
    /\ cliPc = "generating"
    /\ pc = "returned"
    /\ cliEvents' = cliEvents \o <<"password">>
                      \o IF cliActions.showStrength
                         THEN <<CalculateStrength(result).level>>
                         ELSE <<>>
    /\ cliPc' = "displayed"
    /\ UNCHANGED <<cliArgs, cliOptions, cliActions, cliError, clipboard>>
    /\ UNCHANGED <<genVars, histVars>>
    /\ UNCHANGED nonCliVars

\* lines 160-168: clipboardy.write succeeds or throws
CopyToClipboard ==
    /\ cliPc = "displayed"
    /\ IF cliActions.copy
       THEN \E ok \in BOOLEAN :
              IF ok
              THEN /\ clipboard' = result
                   /\ cliEvents' = Append(cliEvents, "Copied to clipboard")
                   /\ cliError' = cliError
                   /\ cliPc' = "copied"
              ELSE /\ clipboard' = clipboard
                   /\ cliEvents' = Append(cliEvents, "Failed to copy to clipboard")
                   /\ cliError' = Swallowed("clipboard")
                   /\ cliPc' = IF Swallowed("clipboard") = "none"
                               THEN "copied" ELSE "exited"
       ELSE /\ cliPc' = "copied"
            /\ UNCHANGED <<clipboard, cliEvents, cliError>>
    /\ UNCHANGED <<cliArgs, cliOptions, cliActions>>
    /\ UNCHANGED <<genVars, histVars>>
    /\ UNCHANGED nonCliVars

\* lines 170-178: saveToHistory succeeds or throws
SaveGenerated ==
    /\ cliPc = "copied"
    /\ IF cliActions.save
       THEN \E ok \in BOOLEAN :
              IF ok
              THEN /\ SaveToHistory(result)
                   /\ cliEvents' = Append(cliEvents, "Saved to history")
                   /\ cliError' = cliError
                   /\ cliPc' = "done"
              ELSE /\ UNCHANGED <<historyFile, nextId, savedLog>>
                   /\ cliEvents' = Append(cliEvents, "Failed to save to history")
                   /\ cliError' = Swallowed("history")
                   /\ cliPc' = IF Swallowed("history") = "none"
                               THEN "done" ELSE "exited"
       ELSE /\ cliPc' = "done"
            /\ UNCHANGED <<historyFile, nextId, savedLog, cliEvents, cliError>>
    /\ UNCHANGED <<cliArgs, cliOptions, cliActions, clipboard>>
    /\ UNCHANGED <<hpc, hloaded>>
    /\ UNCHANGED genVars
    /\ UNCHANGED nonCliVars

---------------------------------------------------------------------------
(* Specifications *)

Init == GenInit /\ ScoreInit /\ HistIdle /\ CfgIdle /\ CmdIdle /\ MaskIdle /\ CliIdle

\* calls of PasswordGenerator.generate
Next ==
    \/ GenerateCall
    \/ GenerateFromCustomChars
    \/ BuildCharsetOrThrow
    \/ Draw
    \/ Return
Spec == Init /\ [][Next]_vars

\* calls of PasswordGenerator.calculateStrength
StrengthNext ==
    \/ ExtendCandidate
    \/ Score
StrengthSpec == Init /\ [][StrengthNext]_vars

\* sequential calls of saveToHistory and clearHistory
HistoryInit ==
    GenInit /\ ScoreInit /\ HistInit /\ CfgIdle /\ CmdIdle /\ MaskIdle /\ CliIdle
HistoryNext ==
    \/ SaveToHistoryCall
    \/ ClearHistoryCall
HistorySpec == HistoryInit /\ [][HistoryNext]_vars

\* saveToHistory called from two processes at once
ConcurrentNext ==
    \/ SaveLoadStep
    \/ SaveWriteStep
ConcurrentSpec == HistoryInit /\ [][ConcurrentNext]_vars

\* loadConfig and saveConfig over a config file the user may edit
ConfigNext ==
    \/ EditConfigFile
    \/ LoadConfigCall
    \/ SaveConfigCall
ConfigSpec == Init /\ [][ConfigNext]_vars

\* runs of the config command
ConfigCommandNext ==
    \/ SetConfigValueCall
    \/ ConfigureHistoryCall
ConfigCommandSpec == Init /\ [][ConfigCommandNext]_vars

\* the limit is configured, then passwords are saved
LimitNext ==
    \/ SetConfigValueOnEmptyLog
    \/ ConfigureHistoryOnEmptyLog
    \/ SaveUnderLimit
LimitSpec == Init /\ [][LimitNext]_vars

\* stored passwords shown by the history command
MaskNext ==
    \/ ExtendStored
    \/ MaskPasswordCall
MaskSpec == Init /\ [][MaskNext]_vars

\* one run of `gmana gen` in command mode
CommandInit ==
    /\ GenInit /\ ScoreInit /\ HistIdle /\ CmdIdle /\ MaskIdle /\ CliIdle
    /\ configFile \in {NoConfigFile, ConfigWithLength8}
    /\ cfgLoaded = NotLoaded
    /\ cfgError = "none"
CommandNext ==
    \/ RunCommandMode
    \/ EnterGenerate
    \/ BuildCharsetOrThrow
    \/ Draw
    \/ Return
    \/ GenerationFailed
    \/ Display
    \/ CopyToClipboard
    \/ SaveGenerated
CommandSpec == CommandInit /\ [][CommandNext]_vars

---------------------------------------------------------------------------
(* Properties of generate, checked under Spec *)

Range(seq) == {seq[i] : i \in 1..Len(seq)}

LowerLetters == Range(LOWERCASE)
UpperLetters == Range(UPPERCASE)
Digits == Range(NUMBERS)
CoreSymbols == Range(SYMBOLS)
ExtraSymbols == Range(EXTRA_SYMBOLS)
SymbolChars == CoreSymbols \cup ExtraSymbols

\* some code unit of p belongs to class
Has(p, class) == \E i \in 1..Len(p) : p[i] \in class

AnyClass(o) ==
    \/ o.includeLowercase \/ o.includeUppercase \/ o.includeNumbers
    \/ o.includeSymbols \/ o.includeExtraSymbols

\* the call was given a present, non-empty customChars string
GivenCustom == options.customChars.present /\ options.customChars.chars # <<>>

\* the call was given an integer length of [4, 128]
GivenValidLength ==
    /\ options.length.kind = "int"
    /\ options.length.val \in 4..128

EmptyCharsetError == error = "No character types selected"

SimilarSet == {"i", "l", "1", "L", "o", "0", "O"}
AmbiguousSet == {"{", "}", "[", "]", "(", ")", "/", "\\", "'", "\"", GRAVE,
                 "~", ",", ";", ".", "<", ">"}

\* the pool C10 describes: the five classes in their fixed order, keeping
\* the characters of the enabled classes that no requested filter removes
AllClasses == LOWERCASE \o UPPERCASE \o NUMBERS \o SYMBOLS \o EXTRA_SYMBOLS
ClassEnabled(o, ch) ==
    \/ o.includeLowercase /\ ch \in LowerLetters
    \/ o.includeUppercase /\ ch \in UpperLetters
    \/ o.includeNumbers /\ ch \in Digits
    \/ o.includeSymbols /\ ch \in CoreSymbols
    \/ o.includeExtraSymbols /\ ch \in ExtraSymbols
ExpectedPool(o) ==
    SelectSeq(AllClasses,
              LAMBDA ch : /\ ClassEnabled(o, ch)
                          /\ o.excludeSimilar => ch \notin SimilarSet
                          /\ o.excludeAmbiguous => ch \notin AmbiguousSet)

\* C1: when generate returns for a record with an integer length of
\* [4, 128], the returned string has exactly options.length characters, on
\* the class-based path and on the customChars path alike.
C1_ExactLength ==
    (pc = "returned" /\ GivenValidLength) =>
        /\ Len(result) = options.length.val
        /\ draws = options.length.val

C1_Witness ==
    /\ pc = "returned"
    /\ options.length = IntLen(MAX_LENGTH)
    /\ charsetBuilt
    /\ Len(result) = 128

\* C2: with a valid length, all five class flags false and no custom
\* string, generate ends in the empty-charset error and the random source
\* has not been consulted.
C2_EmptyCharsetFailsBeforeSampling ==
    (pc # "idle" /\ GivenValidLength /\ ~AnyClass(options) /\ ~GivenCustom) =>
        /\ pc \in {"parsed", "threw"}
        /\ draws = 0
        /\ password = <<>>
        /\ pc = "threw" => EmptyCharsetError

C2_Witness ==
    /\ pc = "threw"
    /\ EmptyCharsetError
    /\ GivenValidLength
    /\ ~AnyClass(options)
    /\ ~options.customChars.present
    /\ options.excludeSimilar

\* C3: with a valid length, no custom string and at least one class flag
\* set, generate never raises the empty-charset error whatever the two
\* exclusion flags are: every enabled class keeps a character in the pool.
C3_NonEmptyPool ==
    (pc # "idle" /\ GivenValidLength /\ AnyClass(options) /\ ~GivenCustom) =>
        /\ pc # "threw"
        /\ ~EmptyCharsetError
        /\ charsetBuilt =>
             /\ charset # <<>>
             /\ options.includeLowercase => Has(charset, LowerLetters)
             /\ options.includeUppercase => Has(charset, UpperLetters)
             /\ options.includeNumbers => Has(charset, Digits)
             /\ options.includeSymbols => Has(charset, CoreSymbols)
             /\ options.includeExtraSymbols => Has(charset, ExtraSymbols)

C3_Witness ==
    /\ pc = "returned"
    /\ GivenValidLength
    /\ options.includeExtraSymbols
    /\ ~options.includeLowercase /\ ~options.includeUppercase
    /\ ~options.includeNumbers /\ ~options.includeSymbols
    /\ options.excludeSimilar /\ options.excludeAmbiguous
    /\ Len(charset) = 7

\* C4 as stated: for every valid record with excludeSimilar set, no
\* character of the returned string is one of i l 1 L o 0 O.
C4_NoSimilarForEveryRecord ==
    (pc = "returned" /\ GivenValidLength /\ options.excludeSimilar) =>
        Range(result) \cap SimilarSet = {}

\* C4 (amended): for every valid record with excludeSimilar set and no
\* non-empty customChars, no character of the returned string is one of
\* i l 1 L o 0 O.
C4_NoSimilarInClassBased ==
    (pc = "returned" /\ GivenValidLength /\ options.excludeSimilar /\ ~GivenCustom) =>
        Range(result) \cap SimilarSet = {}

C4_Witness ==
    /\ pc = "returned"
    /\ GivenValidLength
    /\ options.excludeSimilar
    /\ ~GivenCustom
    /\ options.includeNumbers /\ options.includeLowercase /\ options.includeUppercase
    /\ result = <<"h", "j", "k", "m">>

\* C5: a present, non-empty customChars is the pool verbatim (order and
\* duplicates kept), the charset builder is not run, every character drawn
\* occurs in customChars, whatever the seven flags are; an absent or empty
\* customChars gives the class-based pool.
C5_CustomPoolVerbatim ==
    /\ (pc \in {"sampling", "returned"} /\ GivenCustom) =>
          /\ charset = options.customChars.chars
          /\ ~charsetBuilt
          /\ Range(password) \subseteq Range(options.customChars.chars)
          /\ Range(result) \subseteq Range(options.customChars.chars)
    /\ (pc \in {"sampling", "returned"} /\ ~GivenCustom) =>
          /\ charsetBuilt
          /\ charset = ExpectedPool(options)

C5_Witness ==
    /\ pc = "returned"
    /\ options.customChars.chars = <<"l", "{", "0", "l">>
    /\ options.excludeSimilar /\ options.excludeAmbiguous
    /\ ~AnyClass(options)
    /\ result = <<"0", "l", "l", "{">>

\* C6: every record whose length is not an integer of [4, 128] is rejected
\* with the validation error before the charset is built and before any
\* draw; no validated record is produced, so the length is neither clamped
\* nor replaced, and with no class selected the error is still the
\* validation error.
C6_InvalidLengthRejected ==
    (pc # "idle" /\ ~GivenValidLength /\ options.length.kind # "absent") =>
        /\ pc = "threw"
        /\ error = "ZodError"
        /\ ~charsetBuilt
        /\ charset = <<>>
        /\ draws = 0
        /\ password = <<>>
        /\ validatedOptions.length = 0

C6_Witness ==
    /\ pc = "threw"
    /\ error = "ZodError"
    /\ options.length = IntLen(129)
    /\ ~AnyClass(options)
    /\ ~options.customChars.present

\* C10: the pool the charset builder returns (the state buildCharset leaves,
\* before the first draw) is the concatenation of the
\* enabled classes in the order lowercase, uppercase, numbers, symbols,
\* extra-symbols, without the similar characters iff excludeSimilar and
\* without the ambiguous ones iff excludeAmbiguous; the order of the
\* survivors is kept, applying the two filters in the other order gives the
\* same pool, and no character occurs twice.
C10_PoolConstruction ==
    (charsetBuilt /\ draws = 0) =>
        /\ charset = ExpectedPool(options)
        /\ LET unfiltered ==
                 BuildCharset([options EXCEPT !.excludeSimilar = FALSE,
                                              !.excludeAmbiguous = FALSE])
               ambiguousFirst ==
                 IF options.excludeAmbiguous
                 THEN Without(unfiltered, AMBIGUOUS_CHARS) ELSE unfiltered
           IN  charset = IF options.excludeSimilar
                         THEN Without(ambiguousFirst, SIMILAR_CHARS)
                         ELSE ambiguousFirst
        /\ Cardinality(Range(charset)) = Len(charset)

C10_Witness ==
    /\ charsetBuilt
    /\ draws = 0
    /\ options.includeLowercase /\ options.includeUppercase
    /\ options.includeNumbers /\ options.includeSymbols
    /\ options.includeExtraSymbols
    /\ options.excludeSimilar /\ options.excludeAmbiguous
    /\ Len(charset) = 70

\* C11: given a non-empty pool of n characters and a target length, the
\* sampler asks the random source for exactly length indices, each of
\* [0, n); the i-th output character is the pool character at the i-th
\* returned index, so the output is fixed by the pool and the index
\* sequence and every output character belongs to the pool; nothing keeps
\* an index from being returned at several positions.
C11_SamplerFollowsIndices ==
    (pc \in {"sampling", "returned"}) =>
        /\ charset # <<>>
        /\ Len(indices) = draws
        /\ Len(password) = draws
        /\ draws <= validatedOptions.length
        /\ \A i \in 1..draws :
             /\ indices[i] \in 0..(Len(charset) - 1)
             /\ password[i] = charset[indices[i] + 1]
        /\ pc = "returned" =>
             /\ draws = validatedOptions.length
             /\ result = [i \in 1..draws |-> charset[indices[i] + 1]]

\* a returned call whose source gave the same index at every position,
\* from a pool that holds other characters too
C11_Witness ==
    /\ pc = "returned"
    /\ Len(charset) = 8
    /\ indices = <<7, 7, 7, 7, 7>>
    /\ result = <<"9", "9", "9", "9", "9">>

---------------------------------------------------------------------------
(* Properties of calculateStrength, checked under StrengthSpec *)

Scored == strength # NotScored

Indicator(b) == IF b THEN 1 ELSE 0

\* some character occurs three or more times in a row
HasTripleRun(p) ==
    \E i \in 1..(Len(p) - 2) : p[i] = p[i + 1] /\ p[i + 1] = p[i + 2]

\* p contains "123", "abc" or "qwe", in any mix of cases
HasCommonSequence(p) ==
    \E i \in 1..(Len(p) - 2) :
        \/ p[i] = "1" /\ p[i + 1] = "2" /\ p[i + 2] = "3"
        \/ p[i] \in {"a", "A"} /\ p[i + 1] \in {"b", "B"} /\ p[i + 2] \in {"c", "C"}
        \/ p[i] \in {"q", "Q"} /\ p[i + 1] \in {"w", "W"} /\ p[i + 2] \in {"e", "E"}

LengthTerm(p) ==
    IF Len(p) >= 12 THEN 25
    ELSE IF Len(p) >= 8 THEN 15
    ELSE IF Len(p) >= 6 THEN 10
    ELSE 0

\* C7: score = max(0, L + 15 [lowercase] + 15 [uppercase] + 15 [digit]
\* + 20 [symbol or extra symbol] - 10 [a character three or more times in a
\* row] - 15 ["123", "abc" or "qwe", ignoring case]) for every string.
C7_ScoreFormula ==
    Scored =>
        strength.score =
            Max(0, LengthTerm(candidate)
                   + 15 * Indicator(Has(candidate, LowerLetters))
                   + 15 * Indicator(Has(candidate, UpperLetters))
                   + 15 * Indicator(Has(candidate, Digits))
                   + 20 * Indicator(Has(candidate, SymbolChars))
                   - 10 * Indicator(HasTripleRun(candidate))
                   - 15 * Indicator(HasCommonSequence(candidate)))

\* the C7 formula on the strings without a run of three line terminators
C7_ScoreFormulaNoLineTerminatorRun ==
    (Scored /\ (HasTripleRun(candidate) <=> TestRepeat(candidate))) =>
        strength.score =
            Max(0, LengthTerm(candidate)
                   + 15 * Indicator(Has(candidate, LowerLetters))
                   + 15 * Indicator(Has(candidate, UpperLetters))
                   + 15 * Indicator(Has(candidate, Digits))
                   + 20 * Indicator(Has(candidate, SymbolChars))
                   - 10 * Indicator(HasTripleRun(candidate))
                   - 15 * Indicator(HasCommonSequence(candidate)))

\* C8: the level is the threshold label of the returned, clamped score,
\* also when the penalties drive the raw sum below 0.
C8_LevelMatchesScore ==
    Scored =>
        /\ strength.level = "Very Strong" <=> strength.score >= 90
        /\ strength.level = "Strong" <=> (75 <= strength.score /\ strength.score < 90)
        /\ strength.level = "Good" <=> (60 <= strength.score /\ strength.score < 75)
        /\ strength.level = "Fair" <=> (40 <= strength.score /\ strength.score < 60)
        /\ strength.level = "Weak" <=> (20 <= strength.score /\ strength.score < 40)
        /\ strength.level = "Very Weak" <=> strength.score < 20

C8_Witness ==
    /\ Scored
    /\ RawStrength(candidate).score < 0
    /\ strength.score = 0
    /\ strength.level = "Very Weak"

\* C9: the feedback holds a hint exactly when its positive term was not
\* awarded or its penalty was applied, each hint once, in the order length
\* hint, lowercase, uppercase, numbers, special characters, repeating
\* characters, common sequences; the empty string scores 0, Very Weak, with
\* the length hint and the four "Add ..." hints.
HintOrder ==
    <<"Password should be at least 8 characters long",
      "Add lowercase letters", "Add uppercase letters", "Add numbers",
      "Add special characters", "Avoid repeating characters",
      "Avoid common sequences">>
HintDue(p, hint) ==
    CASE hint = HintOrder[1] -> LengthTerm(p) = 0
      [] hint = HintOrder[2] -> ~Has(p, LowerLetters)
      [] hint = HintOrder[3] -> ~Has(p, UpperLetters)
      [] hint = HintOrder[4] -> ~Has(p, Digits)
      [] hint = HintOrder[5] -> ~Has(p, SymbolChars)
      [] hint = HintOrder[6] -> TestRepeat(p)
      [] hint = HintOrder[7] -> HasCommonSequence(p)
C9_FeedbackHints ==
    Scored =>
        /\ strength.feedback = SelectSeq(HintOrder, LAMBDA h : HintDue(candidate, h))
        /\ candidate = <<>> =>
             /\ strength.score = 0
             /\ strength.level = "Very Weak"
             /\ strength.feedback =
                  <<"Password should be at least 8 characters long",
                    "Add lowercase letters", "Add uppercase letters",
                    "Add numbers", "Add special characters">>

C9_Witness ==
    /\ Scored
    /\ candidate = <<"1", "2", "3", "3", "3">>
    /\ Len(strength.feedback) = 6

---------------------------------------------------------------------------
(* Properties of the history log *)

StoredHistory == LoadHistory(historyFile)

\* C12: after any sequence of sequential saveToHistory and clearHistory
\* calls the stored history has at most 100 entries, newest first with the
\* entry saved last at index 0, and is exactly the latest min(k, 100) of
\* the k entries saved since the last clear.
C12_HistoryBounded ==
    LET k == Len(savedLog)
    IN  /\ Len(StoredHistory) <= 100
        /\ Len(StoredHistory) = IF k <= 100 THEN k ELSE 100
        /\ \A i \in 1..Len(StoredHistory) : StoredHistory[i] = savedLog[i]
        /\ \A i \in 1..(Len(StoredHistory) - 1) :
             StoredHistory[i].id > StoredHistory[i + 1].id
        /\ k > 0 => StoredHistory[1].id = nextId

\* 102 entries saved without a clear: the two oldest are gone
C12_Witness ==
    /\ Len(savedLog) = 102
    /\ Len(StoredHistory) = 100
    /\ StoredHistory[1].id = 102
    /\ StoredHistory[100].id = 3

\* C19: the history is append-only under concurrent use: once the
\* concurrent saveToHistory calls on a history of fewer than 99 entries have
\* completed, every entry they saved and every earlier entry is stored.
C19_NoEntryLost ==
    (/\ \A p \in Procs : hpc[p] = "idle"
     /\ Len(savedLog) <= 99)
        => \A i \in 1..Len(savedLog) : savedLog[i] \in Range(StoredHistory)

---------------------------------------------------------------------------
(* Properties of the configuration *)

\* a complete config that the schema accepts
ValidConfig(c) ==
    /\ DOMAIN c = {"defaultLength", "defaultIncludeUppercase",
                   "defaultIncludeLowercase", "defaultIncludeNumbers",
                   "defaultIncludeSymbols", "autoCopy", "saveHistory",
                   "historyLimit"}
    /\ c.defaultLength.t = "num" /\ c.defaultLength.n \in 4..128
    /\ c.defaultIncludeUppercase.t = "bool"
    /\ c.defaultIncludeLowercase.t = "bool"
    /\ c.defaultIncludeNumbers.t = "bool"
    /\ c.defaultIncludeSymbols.t = "bool"
    /\ c.autoCopy.t = "bool"
    /\ c.saveHistory.t = "bool"
    /\ c.historyLimit.t = "num" /\ c.historyLimit.n \in 0..1000

DefaultConfig ==
    [defaultLength |-> Num(12),
     defaultIncludeUppercase |-> Bool(TRUE),
     defaultIncludeLowercase |-> Bool(TRUE),
     defaultIncludeNumbers |-> Bool(TRUE),
     defaultIncludeSymbols |-> Bool(TRUE),
     autoCopy |-> Bool(TRUE),
     saveHistory |-> Bool(FALSE),
     historyLimit |-> Num(100)]

\* a file's object with the defaults put where a property is not there
Filled(c) ==
    [k \in DOMAIN c |-> IF c[k].t = "missing" THEN DefaultConfig[k] ELSE c[k]]

\* C14: loadConfig always returns a complete config that the schema
\* accepts, the defaults when the file is missing, unreadable or invalid;
\* what saveConfig wrote is a valid config.
C14_ConfigAlwaysValid ==
    /\ cfgLoaded.done => ValidConfig(cfgLoaded.config)
    /\ LET c == LoadConfig(configFile)
           usable == /\ configFile.state = "json"
                     /\ ValidConfig(Filled(configFile.content))
       IN  /\ ValidConfig(c)
           /\ ~usable => c = DefaultConfig
           /\ usable => c = Filled(configFile.content)
    /\ configFile.writer = "saveConfig" =>
         /\ configFile.state = "json"
         /\ ValidConfig(configFile.content)

\* loadConfig gave the defaults for a file with an out-of-range length,
\* saveConfig then wrote limit 1000 over it, and a later saveConfig call
\* with an invalid value threw and left the file as it was
C14_Witness ==
    /\ configFile = ConfigFileOf([DefaultConfig EXCEPT !.historyLimit = Num(1000)],
                                 "saveConfig")
    /\ cfgLoaded = [done |-> TRUE, config |-> DefaultConfig]
    /\ cfgError = "ZodError"

\* a text that is the decimal form of an integer, and that integer
IsDecimal(text) == text # <<>> /\ \A i \in 1..Len(text) : text[i] \in Digits
RECURSIVE DecimalValue(_)
DecimalValue(text) ==
    IF text = <<>> THEN 0
    ELSE 10 * DecimalValue(SubSeq(text, 1, Len(text) - 1))
         + (CHOOSE d \in 0..9 : NUMBERS[d + 1] = text[Len(text)])

\* the limit text given to the last config command, when it was given one
LimitTextGiven ==
    IF cmdInput.path = "interactive" /\ cmdInput.asked
    THEN [given |-> TRUE, text |-> cmdInput.text]
    ELSE IF /\ cmdInput.path = "set"
            /\ Len(cmdInput.text) > 13
            /\ SubSeq(cmdInput.text, 1, 13) = Text_historylimit \o <<"=">>
            /\ \A i \in 14..Len(cmdInput.text) : cmdInput.text[i] # "="
    THEN [given |-> TRUE, text |-> SubSeq(cmdInput.text, 14, Len(cmdInput.text))]
    ELSE [given |-> FALSE, text |-> <<>>]

\* C18: on either path that sets historyLimit, a value the validation
\* accepts (an integer from 0 to 1000, 0 included) is what the next
\* loadConfig returns, and a refused value leaves the stored configuration
\* as it was.
C18_AcceptedLimitPersisted ==
    /\ (/\ LimitTextGiven.given
        /\ IsDecimal(LimitTextGiven.text)
        /\ DecimalValue(LimitTextGiven.text) \in 0..1000)
         => LoadConfig(configFile).historyLimit.n = DecimalValue(LimitTextGiven.text)
    /\ cmdOutcome \in {"rejected", "threw"} => configFile = cmdBefore

\* the same, for --set alone
C18_SetPathPersists ==
    cmdInput.path = "set" => C18_AcceptedLimitPersisted

\* C17: the configured historyLimit bounds the history log: the stored
\* history, saved while the configuration holds historyLimit = h, never
\* holds more than h entries.
C17_HistoryWithinLimit ==
    Len(StoredHistory) <= LoadConfig(configFile).historyLimit.n

---------------------------------------------------------------------------
(* Properties of maskPassword *)

\* C15: the mask reveals only the first 2 and the last 2 characters: for a
\* password of more than 4 characters it has the password's length, keeps
\* the first two and the last two positions, and every position from the
\* third to the third-from-last is a bullet; for 4 characters or fewer it
\* is four bullets and holds no character of the password.
C15_MaskRevealsEnds ==
    masked.done =>
        LET pw == masked.password
            m == masked.mask
            n == Len(pw)
        IN  IF n > 4
            THEN /\ Len(m) = n
                 /\ \A i \in 3..(n - 2) : m[i] = "U+2022"
                 /\ \A i \in {1, 2, n - 1, n} : m[i] = pw[i]
            ELSE /\ m = <<"U+2022", "U+2022", "U+2022", "U+2022">>
                 /\ \A i \in 1..n : \A j \in 1..Len(m) : m[j] # pw[i]

\* a four-character password and a six-character one would both do; the
\* longer one is shown with its middle hidden
C15_Witness ==
    /\ masked.done
    /\ masked.password = <<"a", "B", "1", "!", "b", "c">>
    /\ masked.mask = <<"a", "B", "U+2022", "U+2022", "b", "c">>

---------------------------------------------------------------------------
(* Properties of the gen command *)

\* where a line was printed, 0 when it was not
Position(line) ==
    IF \E i \in 1..Len(cliEvents) : cliEvents[i] = line
    THEN CHOOSE i \in 1..Len(cliEvents) : cliEvents[i] = line
    ELSE 0
Printed(line) == Position(line) > 0
CopyAttempted == Printed("Copied to clipboard") \/ Printed("Failed to copy to clipboard")
SaveAttempted == Printed("Saved to history") \/ Printed("Failed to save to history")

\* C13: once generate has returned, the password is displayed before any
\* clipboard or history write is attempted; a failed clipboard write or
\* history save does not abort the command: the save is still attempted
\* after a failed copy, and neither failure reaches the command's caller.
C13_FailuresDoNotAbort ==
    /\ (CopyAttempted \/ SaveAttempted \/ clipboard # <<>> \/ nextId > 0) =>
         /\ Printed("password")
         /\ \A i \in 1..Len(cliEvents) :
              cliEvents[i] \in {"Copied to clipboard", "Failed to copy to clipboard",
                                "Saved to history", "Failed to save to history"}
                => Position("password") < i
    /\ pc = "returned" =>
         /\ cliError = "none"
         /\ cliPc \in {"generating", "displayed", "copied", "done"}
         /\ cliPc = "generating" => ENABLED Display
         /\ cliPc = "displayed" => ENABLED CopyToClipboard
         /\ cliPc = "copied" => ENABLED SaveGenerated
    /\ cliPc = "done" =>
         /\ Printed("password")
         /\ cliActions.copy => CopyAttempted
         /\ cliActions.save => SaveAttempted

\* the copy failed, the save was attempted and failed too, and the command
\* ended normally
C13_Witness ==
    /\ cliPc = "done"
    /\ cliError = "none"
    /\ Len(cliEvents) = 4
    /\ cliEvents[1] = "password"
    /\ cliEvents[3] = "Failed to copy to clipboard"
    /\ cliEvents[4] = "Failed to save to history"

\* a --length text with no digit in it, or the decimal form of an integer
\* outside 4..128
InvalidLengthText(text) ==
    \/ \A i \in 1..Len(text) : text[i] \notin Digits
    \/ IsDecimal(text) /\ DecimalValue(text) \notin 4..128

\* C16: in command mode a --length that is non-numeric or outside [4,128]
\* is rejected before generation: no password is generated for it, and the
\* configured default length or 12 is never used in its place.
C16_InvalidLengthNotReplaced ==
    (cliPc # "idle" /\ InvalidLengthText(cliArgs.length)) =>
        /\ cliOptions.length \notin {IntLen(LoadConfig(configFile).defaultLength.n),
                                     IntLen(12)}
        /\ pc \notin {"parsed", "sampling", "returned"}
        /\ password = <<>>
        /\ ~Printed("password")

====
